---- MODULE Spec2Model ----
(***************************************************************************)
(* Model of src/src/cuda/TwoStepNPTGPU.cu: the five host drivers           *)
(* (gpu_npt_step_one, gpu_npt_boxscale, gpu_npt_step_two,                  *)
(* gpu_npt_group_temperature, gpu_npt_pressure2) and the five kernels they *)
(* launch, at the granularity of one statement of one GPU thread.          *)
(*                                                                         *)
(* float values are fixed-point numbers: an integer v stands for v/One,    *)
(* and every float operation rounds its exact result to the nearest        *)
(* representable value, ties to even (FMul, FDiv, rintf).                  *)
(***************************************************************************)
EXTENDS Integers, Sequences, FiniteSets, TLC

(* ------------------------------ bounds --------------------------------- *)
\* largest particle count pdata.N = pdata.local_num that Init draws
MaxParticles == 2
\* number of driver calls the host issues in one behaviour of Spec
MaxCalls == 2

(* --------------------------- float arithmetic -------------------------- *)
\* the float 1.0f
One == 16

\* n/d (d > 0) rounded to the nearest integer, ties to even (IEEE default)
Rnd(n, d) ==
    LET q == n \div d
        r == n % d
    IN  IF 2 * r < d THEN q
        ELSE IF 2 * r > d THEN q + 1
        ELSE IF q % 2 = 0 THEN q ELSE q + 1

\* float product a*b
FMul(a, b) == Rnd(a * b, One)

\* float quotient a/b (b # 0)
FDiv(a, b) == IF b > 0 THEN Rnd(a * One, b) ELSE Rnd((0 - a) * One, 0 - b)

\* (mutant) floorf(x + 0.5f): ties away from zero on the positive side
rintf_HalfUp(x) == ((x + (One \div 2)) \div One) * One

\* rintf(x): x rounded to an integral float, ties to even
rintf(x) == Rnd(x, One) * One

\* (int)x for an integral float x
ToInt(x) == x \div One

\* exp(x) of libm, correctly rounded, on the arguments the drivers produce
ExpTable == [a \in {-16, -8, -4, 0, 4, 8, 16} |->
               CASE a = -16 -> 6  [] a = -8 -> 10 [] a = -4 -> 12 [] a = 0 -> 16
                 [] a = 4 -> 21   [] a = 8 -> 26  [] a = 16 -> 43]

exp(x) == ExpTable[x]

(* ------------------------------ error codes ---------------------------- *)
cudaSuccess == "cudaSuccess"
\* what a failing cudaBindTexture can return
BindErrors == {"cudaErrorInvalidValue", "cudaErrorMemoryAllocation"}
\* what a rejected <<< >>> launch leaves as the last error
cudaErrorInvalidConfiguration == "cudaErrorInvalidConfiguration"
\* what a memory fault inside a running kernel leaves on the device
cudaErrorLaunchFailure == "cudaErrorLaunchFailure"

(* ------------------------------- state --------------------------------- *)
VARIABLES
    g_gpu_error_checking, \* gpu_settings.h: the process-wide checked-execution flag
    pdata,                \* gpu_pdata_arrays: N, local_num, pos, vel, accel, mass, image
    d_net_force,          \* float4 per particle (input of step two)
    d_net_virial,         \* float per particle (input of the pressure reduction)
    d_partial_sum2K,      \* float per block
    d_partial_sumW,       \* float per block
    npt_sdata,            \* __shared__ float npt_sdata[]: one array per block
    params,               \* the caller's block_size, num_blocks, Xi, Eta, deltaT, box
    lastError,            \* the CUDA runtime's last-error variable (cudaGetLastError)
    asyncError,           \* sticky error left on the device by a faulting kernel
    kernel,               \* the kernel on the device: name, grid, arguments, aborted
    wpc,                  \* per GPU thread: the next statement of the kernel
    wloc,                 \* per GPU thread: its registers
    texSnap,              \* the arrays as they stood at launch (what the texture cache may hold)
    hostpc,               \* "idle", or "sync" while the driver blocks in cudaThreadSynchronize
    status,               \* the cudaError_t the last driver call returned
    call,                 \* the last driver call: function, textures bound, launch result
    callsLeft,            \* driver calls the host will still issue
    hist                  \* per launch: memory accesses of the threads (observation only)

vars == <<g_gpu_error_checking, pdata, d_net_force, d_net_virial, d_partial_sum2K,
          d_partial_sumW, npt_sdata, params, lastError, asyncError, kernel, wpc, wloc,
          texSnap, hostpc, status, call, callsLeft, hist>>

(* ----------------------------- initial data ---------------------------- *)
Tab(t, i) == t[(i % Len(t)) + 1]

float4(x, y, z, w) == [x |-> x, y |-> y, z |-> z, w |-> w]

\* position: particle 0 sits at x = 1.0, half of the box length Lx = 2.0;
\* pos.w carries the particle type
InitPos(i) == float4(Tab(<<16, -24, 40>>, i), Tab(<<-8, 32, 0>>, i),
                     Tab(<<0, 16, -48>>, i), Tab(<<16, 32, 48>>, i))
InitVel(i) == float4(Tab(<<16, -8, 4>>, i), Tab(<<0, 16, -16>>, i),
                     Tab(<<-16, 8, 0>>, i), Tab(<<80, 96, 112>>, i))
InitAccel(i) == float4(Tab(<<8, 0, -16>>, i), Tab(<<16, -8, 0>>, i),
                       Tab(<<0, 32, 8>>, i), 0)
InitMass(i) == Tab(<<16, 32, 8>>, i)
InitImage(i) == float4(Tab(<<0, 1, -1>>, i), 0, Tab(<<2, 0, 0>>, i), 0)
InitForce(i) == float4(Tab(<<32, -16, 8>>, i), Tab(<<0, 64, -8>>, i),
                       Tab(<<-16, 0, 24>>, i), Tab(<<160, 176, 192>>, i))
InitVirial(i) == Tab(<<24, -8, 40>>, i)

Particles(n) == 0 .. (n - 1)

InitPdata(n) ==
    [N |-> n, local_num |-> n,
     pos   |-> [i \in Particles(n) |-> InitPos(i)],
     vel   |-> [i \in Particles(n) |-> InitVel(i)],
     accel |-> [i \in Particles(n) |-> InitAccel(i)],
     mass  |-> [i \in Particles(n) |-> InitMass(i)],
     image |-> [i \in Particles(n) |-> InitImage(i)]]

\* gpu_boxsize: the lengths and their reciprocals
gpu_boxsize(Lx, Ly, Lz) ==
    [Lx |-> Lx, Ly |-> Ly, Lz |-> Lz,
     Lxinv |-> FDiv(One, Lx), Lyinv |-> FDiv(One, Ly), Lzinv |-> FDiv(One, Lz)]

(* ------------------------------ call inputs ---------------------------- *)
\* threads per block the device accepts (a larger block is a launch-configuration failure)
MaxThreadsPerBlock == 4

\* (Xi, Eta, deltaT) the integrator passes: Xi = 1, deltaT = 1, and Eta = 0 (the box
\* keeps its size) or Eta = 1 (the box grows by exp(1))
Couplings == {[Xi |-> 16, Eta |-> 0, deltaT |-> 16], [Xi |-> 16, Eta |-> 16, deltaT |-> 16]}

\* (block_size, num_blocks) the integrator passes in Spec: one block of two threads, a
\* grid of no blocks, a block larger than the device accepts
Grids == {<<2, 1>>, <<2, 0>>, <<8, 1>>}

\* the box the caller passes to gpu_npt_boxscale
CallerBox == gpu_boxsize(32, 64, 64)

ParamSets(grids, couplings) ==
    {[block_size |-> g[1], num_blocks |-> g[2], Xi |-> c.Xi, Eta |-> c.Eta,
      deltaT |-> c.deltaT, box |-> CallerBox] : g \in grids, c \in couplings}

\* d_group_members the caller may pass with group_size = its length: lists of valid
\* indices with and without a repeated index, and one list naming index N (out of range)
GroupLists(n) ==
    {m \in {<<>>, <<0>>, <<1>>, <<0, 1>>, <<1, 1>>} : \A j \in 1 .. Len(m) : m[j] < n}
        \cup {<<n>>}

(* ------------------------------ device state --------------------------- *)
NoBox == gpu_boxsize(One, One, One)

NoKernel == [name |-> "none", gridDim |-> 0, blockDim |-> 0, members |-> <<>>,
             group_size |-> 0, exp_v_fac |-> One, exp_r_fac |-> One, deltaT |-> 0,
             box |-> NoBox, box_len_scale |-> One, aborted |-> FALSE]

Threads == 0 .. (kernel.gridDim * kernel.blockDim - 1)

\* (mutant) the loop stops one iteration early, as with "while (offs > 1)"
RECURSIVE Halvings_StopsEarly(_)
Halvings_StopsEarly(blockDim) ==
    IF blockDim \div 4 > 0 THEN 1 + Halvings_StopsEarly(blockDim \div 2) ELSE 0

\* iterations of the halving loop "offs = blockDim.x >> 1; while (offs > 0) ... offs >>= 1"
RECURSIVE Halvings(_)
Halvings(blockDim) == IF blockDim \div 2 > 0 THEN 1 + Halvings(blockDim \div 2) ELSE 0

\* the statement after the last one of the kernel on the device
End == CASE kernel.name = "gpu_npt_step_one_kernel" -> 3
         [] kernel.name = "gpu_npt_boxscale_kernel" -> 3
         [] kernel.name = "gpu_npt_step_two_kernel" -> 3
         [] kernel.name = "gpu_npt_group_temperature_kernel" -> Halvings(kernel.blockDim) + 2
         [] kernel.name = "gpu_npt_pressure_kernel2" -> 2 * Halvings(kernel.blockDim) + 4
         [] OTHER -> 0

\* the device has nothing left to run: no kernel, or every thread finished, or it faulted
KernelDone == kernel.aborted \/ \A g \in Threads : wpc[g] = End

NoRegs == [idx |-> 0, pos |-> float4(0, 0, 0, 0), vel |-> float4(0, 0, 0, 0),
           accel |-> float4(0, 0, 0, 0), image |-> float4(0, 0, 0, 0)]

\* memWrites: stores to particle arrays in this launch; visits: threads that took each
\* particle; glReads: threads that read d_group_members; touched: threads that accessed
\* particle data; accelStored: what step two last stored in pdata.accel (kept across launches)
\* prev, prevSnap: for a gpu_npt_step_one_kernel launch, the kernel of the launch
\* before it and the arrays at that launch;
\* sacc: per block, the barrier phase it is in and the npt_sdata slots each thread has
\* read (rd) and written (wr) in that phase, as <<threadIdx.x, slot>>
NewHist(n, stored, nblocks) ==
    [memWrites |-> 0, visits |-> [i \in Particles(n) |-> 0], glReads |-> {}, touched |-> {},
     accelStored |-> stored, prev |-> NoKernel, prevSnap |-> InitPdata(0),
     sacc |-> [b \in 0 .. (nblocks - 1) |-> [phase |-> 0, rd |-> {}, wr |-> {}]]]

NoCall == [fn |-> "none", binds |-> <<>>, bindError |-> cudaSuccess,
           launchError |-> cudaSuccess, launched |-> FALSE]

\* what uninitialised device memory holds before a kernel writes it
Garbage == 999

MaxBlocks == 3

(* ------------------------------- Init ---------------------------------- *)
InitWith(paramSet, calls) ==
    /\ g_gpu_error_checking \in BOOLEAN
    /\ \E n \in 0 .. MaxParticles :
          /\ pdata = InitPdata(n)
          /\ d_net_force = [i \in Particles(n) |-> InitForce(i)]
          /\ d_net_virial = [i \in Particles(n) |-> InitVirial(i)]
    /\ d_partial_sum2K = [b \in 0 .. (MaxBlocks - 1) |-> Garbage]
    /\ d_partial_sumW = [b \in 0 .. (MaxBlocks - 1) |-> Garbage]
    /\ npt_sdata = <<>>
    /\ params \in paramSet
    /\ lastError = cudaSuccess
    /\ asyncError = cudaSuccess
    /\ kernel = NoKernel
    /\ wpc = <<>>
    /\ wloc = <<>>
    /\ texSnap = pdata
    /\ hostpc = "idle"
    /\ status = cudaSuccess
    /\ call = NoCall
    /\ callsLeft = calls
    /\ hist = NewHist(pdata.N, [i \in Particles(pdata.N) |-> {}], 0)

\* Spec: sequences of MaxCalls driver calls, with Eta = 1
Init == InitWith(ParamSets(Grids, {c \in Couplings : c.Eta # 0}), MaxCalls)

(* ------------------------------ the drivers ---------------------------- *)
\* what the <<< >>> launch of k reports: an earlier fault of the device, or a
\* configuration the device rejects
LaunchError(k) ==
    IF asyncError # cudaSuccess THEN asyncError
    ELSE IF k.gridDim = 0 \/ k.blockDim = 0 \/ k.blockDim > MaxThreadsPerBlock
         THEN cudaErrorInvalidConfiguration
         ELSE cudaSuccess

\* (mutant) the launch error is returned in both modes
AfterLaunch_ReturnsLaunchError(fn, texs, lerr) ==
    /\ call' = [fn |-> fn, binds |-> texs, bindError |-> cudaSuccess,
                launchError |-> lerr, launched |-> lerr = cudaSuccess]
    /\ IF lerr # cudaSuccess
       THEN /\ status' = lerr
            /\ hostpc' = "idle"
            /\ lastError' = cudaSuccess
       ELSE IF ~g_gpu_error_checking
            THEN /\ status' = cudaSuccess
                 /\ hostpc' = "idle"
                 /\ lastError' = lastError
            ELSE /\ status' = "pending"
                 /\ hostpc' = "sync"
                 /\ lastError' = lastError

\* the return after the launch: cudaSuccess at once, or (checked mode) block in
\* cudaThreadSynchronize and return cudaGetLastError()
AfterLaunch(fn, texs, lerr) ==
    /\ call' = [fn |-> fn, binds |-> texs, bindError |-> cudaSuccess,
                launchError |-> lerr, launched |-> lerr = cudaSuccess]
    /\ IF ~g_gpu_error_checking
       THEN /\ status' = cudaSuccess
            /\ hostpc' = "idle"
            /\ lastError' = IF lerr # cudaSuccess THEN lerr ELSE lastError
       ELSE IF lerr # cudaSuccess
            THEN \* nothing runs: cudaGetLastError() returns and clears the launch error
                 /\ status' = lerr
                 /\ hostpc' = "idle"
                 /\ lastError' = cudaSuccess
            ELSE /\ status' = "pending"
                 /\ hostpc' = "sync"
                 /\ lastError' = lastError

\* (mutant) the "if (error != cudaSuccess) return error;" are missing: every texture is
\* bound and "error" is the result of the last bind
RECURSIVE BindFrom_NoReturn(_, _, _)
BindFrom_NoReturn(i, texs, results) ==
    IF i > Len(texs) THEN <<>>
    ELSE << <<texs[i], results[i]>> >> \o BindFrom_NoReturn(i + 1, texs, results)

\* "error = cudaBindTexture(...); if (error != cudaSuccess) return error;" for the
\* textures texs[i], texs[i+1], ...: the calls made, each with its result, up to and
\* including the first that fails. results[i] is what the i-th cudaBindTexture returns.
RECURSIVE BindFrom(_, _, _)
BindFrom(i, texs, results) ==
    IF i > Len(texs) THEN <<>>
    ELSE IF results[i] # cudaSuccess THEN << <<texs[i], results[i]>> >>
    ELSE << <<texs[i], results[i]>> >> \o BindFrom(i + 1, texs, results)

\* the value of "error" after the binds: the result of the last cudaBindTexture called
BindError(log) == IF log = <<>> THEN cudaSuccess ELSE log[Len(log)][2]

\* the common shape of the five drivers: bind texs in order, returning the first
\* failure; launch k; return. failAt/err: which cudaBindTexture fails, and with what
\* (after a kernel fault every runtime call returns the fault).
Driver(fn, texs, k, failAt, err) ==
    LET results == [i \in 1 .. Len(texs) |->
                      IF asyncError # cudaSuccess THEN asyncError
                      ELSE IF i = failAt THEN err ELSE cudaSuccess]
        log    == BindFrom(1, texs, results)
        code   == BindError(log)
        lerr   == LaunchError(k)
    IN  /\ hostpc = "idle"
        /\ status = cudaSuccess      \* the caller gives up at the first failure
        /\ KernelDone               \* launches of one stream run one after the other
        /\ callsLeft > 0
        /\ callsLeft' = callsLeft - 1
        /\ IF code # cudaSuccess
           THEN /\ status' = code
                /\ lastError' = code
                /\ call' = [fn |-> fn, binds |-> log, bindError |-> code,
                            launchError |-> cudaSuccess, launched |-> FALSE]
                /\ UNCHANGED <<hostpc, kernel, wpc, wloc, texSnap, hist, npt_sdata>>
           ELSE /\ AfterLaunch(fn, log, lerr)
                /\ IF lerr # cudaSuccess
                   THEN UNCHANGED <<kernel, wpc, wloc, texSnap, hist, npt_sdata>>
                   ELSE /\ kernel' = k
                        /\ wpc' = [g \in 0 .. (k.gridDim * k.blockDim - 1) |-> 0]
                        /\ wloc' = [g \in 0 .. (k.gridDim * k.blockDim - 1) |-> NoRegs]
                        /\ texSnap' = pdata
                        /\ hist' = IF k.name = "gpu_npt_step_one_kernel"
                                   THEN [NewHist(pdata.N, hist.accelStored, k.gridDim)
                                            EXCEPT !.prev = kernel, !.prevSnap = texSnap]
                                   ELSE NewHist(pdata.N, hist.accelStored, k.gridDim)
                        /\ npt_sdata' = [b \in 0 .. (k.gridDim - 1) |->
                                           [t \in 0 .. (k.blockDim - 1) |-> Garbage]]
        /\ UNCHANGED <<g_gpu_error_checking, pdata, d_net_force, d_net_virial,
                       d_partial_sum2K, d_partial_sumW, params, asyncError>>

exp_v_fac_of(Xi, Eta, deltaT) == exp(FMul(FMul(FDiv(0 - One, 4 * One), Eta + Xi), deltaT))
exp_r_fac_of(Eta, deltaT) == exp(FMul(FMul(FDiv(One, 2 * One), Eta), deltaT))

gpu_npt_step_one ==
    \E members \in GroupLists(pdata.N), failAt \in 0 .. 3, err \in BindErrors :
        Driver("gpu_npt_step_one", <<"pdata_pos_tex", "pdata_vel_tex", "pdata_accel_tex">>,
               [NoKernel EXCEPT !.name = "gpu_npt_step_one_kernel",
                                !.gridDim = params.num_blocks,
                                !.blockDim = params.block_size,
                                !.members = members,
                                !.group_size = Len(members),
                                !.exp_v_fac = exp_v_fac_of(params.Xi, params.Eta, params.deltaT),
                                !.exp_r_fac = exp_r_fac_of(params.Eta, params.deltaT),
                                !.deltaT = params.deltaT],
               failAt, err)

\* (mutant) the driver polls the error without waiting for the kernel
cudaThreadSynchronize_NoWait ==
    /\ hostpc = "sync"
    /\ hostpc' = "idle"
    /\ status' = IF asyncError # cudaSuccess THEN asyncError ELSE lastError
    /\ lastError' = cudaSuccess
    /\ UNCHANGED <<g_gpu_error_checking, pdata, d_net_force, d_net_virial, d_partial_sum2K,
                   d_partial_sumW, npt_sdata, params, asyncError, kernel, wpc, wloc,
                   texSnap, call, callsLeft, hist>>

\* checked mode: cudaThreadSynchronize() returns once the kernel is over; the driver
\* returns cudaGetLastError(), which also clears the last error
cudaThreadSynchronize ==
    /\ hostpc = "sync"
    /\ KernelDone
    /\ hostpc' = "idle"
    /\ status' = IF asyncError # cudaSuccess THEN asyncError ELSE lastError
    /\ lastError' = cudaSuccess
    /\ UNCHANGED <<g_gpu_error_checking, pdata, d_net_force, d_net_virial, d_partial_sum2K,
                   d_partial_sumW, npt_sdata, params, asyncError, kernel, wpc, wloc,
                   texSnap, call, callsLeft, hist>>

(* ------------------------------ the kernels ---------------------------- *)
\* tex1Dfetch(tex, idx): the texture cache holds the value at launch or the value now;
\* a fetch outside the bound range returns zero
tex1Dfetch(arr, idx) ==
    IF idx \in DOMAIN pdata[arr] THEN {texSnap[arr][idx], pdata[arr][idx]}
    ELSE {float4(0, 0, 0, 0)}

\* one component of the Nose-Hoover velocity update (lines 119, 122, 125, 338-340)
VelUpdate(v, a, exp_v_fac, deltaT) ==
    FMul(FMul(v, exp_v_fac), exp_v_fac)
      + FMul(FMul(FMul(FDiv(One, 2 * One), deltaT), exp_v_fac), a)

\* one component of the position update (lines 120, 123, 126)
PosUpdate(p, v, exp_r_fac_inv, deltaT) == p + FMul(FMul(v, exp_r_fac_inv), deltaT)

\* (mutant) pos2.w is not carried over from pos.w
StepOneRegs_DropsW(idx, pos, vel, accel, k) ==
    LET exp_r_fac_inv == FDiv(One, k.exp_r_fac)
        vx == VelUpdate(vel.x, accel.x, k.exp_v_fac, k.deltaT)
        vy == VelUpdate(vel.y, accel.y, k.exp_v_fac, k.deltaT)
        vz == VelUpdate(vel.z, accel.z, k.exp_v_fac, k.deltaT)
    IN  [NoRegs EXCEPT !.idx = idx,
                       !.pos = float4(PosUpdate(pos.x, vx, exp_r_fac_inv, k.deltaT),
                                      PosUpdate(pos.y, vy, exp_r_fac_inv, k.deltaT),
                                      PosUpdate(pos.z, vz, exp_r_fac_inv, k.deltaT),
                                      0),
                       !.vel = float4(vx, vy, vz, vel.w),
                       !.accel = accel]

\* registers of a step-one thread after its arithmetic (lines 97-132)
StepOneRegs(idx, pos, vel, accel, k) ==
    LET exp_r_fac_inv == FDiv(One, k.exp_r_fac)
        vx == VelUpdate(vel.x, accel.x, k.exp_v_fac, k.deltaT)
        vy == VelUpdate(vel.y, accel.y, k.exp_v_fac, k.deltaT)
        vz == VelUpdate(vel.z, accel.z, k.exp_v_fac, k.deltaT)
    IN  [NoRegs EXCEPT !.idx = idx,
                       !.pos = float4(PosUpdate(pos.x, vx, exp_r_fac_inv, k.deltaT),
                                      PosUpdate(pos.y, vy, exp_r_fac_inv, k.deltaT),
                                      PosUpdate(pos.z, vz, exp_r_fac_inv, k.deltaT),
                                      pos.w),
                       !.vel = float4(vx, vy, vz, vel.w),
                       !.accel = accel]

\* a store to pdata.<arr>[idx] by thread g; a store outside the array is undefined:
\* the device faults and the kernel is over, or the store lands outside the arrays
Store(g, arr, idx, val, nextpc) ==
    IF idx \in DOMAIN pdata[arr]
    THEN /\ pdata' = [pdata EXCEPT ![arr][idx] = val]
         /\ wpc' = [wpc EXCEPT ![g] = nextpc]
         /\ hist' = [hist EXCEPT !.memWrites = @ + 1, !.touched = @ \cup {g},
                                 !.accelStored = IF kernel.name = "gpu_npt_step_two_kernel"
                                                    /\ arr = "accel"
                                                 THEN [@ EXCEPT ![idx] = {val}] ELSE @]
         /\ UNCHANGED <<kernel, asyncError>>
    ELSE \/ /\ kernel' = [kernel EXCEPT !.aborted = TRUE]
            /\ asyncError' = cudaErrorLaunchFailure
            /\ UNCHANGED <<pdata, wpc, hist>>
         \/ /\ wpc' = [wpc EXCEPT ![g] = nextpc]
            /\ UNCHANGED <<pdata, kernel, asyncError, hist>>

\* whether thread g may run its statement: the kernel is on the device and not over
Running(name, g) ==
    /\ kernel.name = name
    /\ ~kernel.aborted
    /\ g \in Threads
    /\ wpc[g] < End

\* (mutant) every thread takes the first entry of the list
MemberOf_First(g) == kernel.members[1]

\* unsigned int idx = d_group_members[group_idx]   (lines 103, 324, 426)
MemberOf(g) == kernel.members[g + 1]

\* if (group_idx < group_size)   (lines 101, 322, 424)
GroupGuard(g) == g < kernel.group_size

gpu_npt_step_one_kernel(g) ==
    /\ Running("gpu_npt_step_one_kernel", g)
    /\ CASE wpc[g] = 0 ->
            \* lines 94-132: the guard, the fetches and the arithmetic
            IF GroupGuard(g)
            THEN LET idx == MemberOf(g) IN
                 \E pos \in tex1Dfetch("pos", idx), vel \in tex1Dfetch("vel", idx),
                    accel \in tex1Dfetch("accel", idx) :
                     /\ wloc' = [wloc EXCEPT ![g] = StepOneRegs(idx, pos, vel, accel, kernel)]
                     /\ wpc' = [wpc EXCEPT ![g] = 1]
                     /\ hist' = [hist EXCEPT !.glReads = @ \cup {g},
                                             !.touched = @ \cup {g},
                                             !.visits = [i \in DOMAIN @ |->
                                                           IF i = idx THEN @[i] + 1 ELSE @[i]]]
                     /\ UNCHANGED <<pdata, kernel, asyncError>>
            ELSE /\ wpc' = [wpc EXCEPT ![g] = End]
                 /\ UNCHANGED <<pdata, kernel, asyncError, wloc, hist>>
         [] wpc[g] = 1 ->
            \* line 135
            /\ Store(g, "pos", wloc[g].idx, wloc[g].pos, 2)
            /\ UNCHANGED wloc
         [] wpc[g] = 2 ->
            \* line 136
            /\ Store(g, "vel", wloc[g].idx, wloc[g].vel, 3)
            /\ UNCHANGED wloc
    /\ UNCHANGED <<g_gpu_error_checking, d_net_force, d_net_virial, d_partial_sum2K,
                   d_partial_sumW, npt_sdata, params, lastError, texSnap, hostpc, status,
                   call, callsLeft>>

\* lines 258-277: the grid and the scaled box of gpu_npt_boxscale
BoxscaleGrid(local_num, block_size) == (local_num \div block_size) + 1

ScaledBox(box, box_len_scale) ==
    gpu_boxsize(FMul(box.Lx, box_len_scale), FMul(box.Ly, box_len_scale),
                FMul(box.Lz, box_len_scale))

gpu_npt_boxscale ==
    \E failAt \in 0 .. 2, err \in BindErrors :
        /\ params.block_size > 0
        /\ LET box_len_scale == exp(FMul(params.Eta, params.deltaT)) IN
           Driver("gpu_npt_boxscale", <<"pdata_pos_tex", "pdata_image_tex">>,
                  [NoKernel EXCEPT !.name = "gpu_npt_boxscale_kernel",
                                   !.gridDim = BoxscaleGrid(pdata.local_num, params.block_size),
                                   !.blockDim = params.block_size,
                                   !.box = ScaledBox(params.box, box_len_scale),
                                   !.box_len_scale = box_len_scale],
                  failAt, err)

gpu_npt_step_two ==
    \E members \in GroupLists(pdata.N), failAt \in 0 .. 3, err \in BindErrors :
        Driver("gpu_npt_step_two", <<"pdata_vel_tex", "pdata_mass_tex", "net_force_tex">>,
               [NoKernel EXCEPT !.name = "gpu_npt_step_two_kernel",
                                !.gridDim = params.num_blocks,
                                !.blockDim = params.block_size,
                                !.members = members,
                                !.group_size = Len(members),
                                !.exp_v_fac = exp_v_fac_of(params.Xi, params.Eta, params.deltaT),
                                !.deltaT = params.deltaT],
               failAt, err)

\* lines 226-228 (and 230-236): the periodic wrap of one coordinate.
\* <<wrapped coordinate, new image counter>>
Wrap(p, L, Linv, img) ==
    LET shift == rintf(FMul(p, Linv))
    IN  <<p - FMul(L, shift), img + ToInt(shift)>>

\* registers of a boxscale thread after its arithmetic (lines 215-242)
BoxscaleRegs(idx, pos, image, k) ==
    LET wx == Wrap(FMul(pos.x, k.box_len_scale), k.box.Lx, k.box.Lxinv, image.x)
        wy == Wrap(FMul(pos.y, k.box_len_scale), k.box.Ly, k.box.Lyinv, image.y)
        wz == Wrap(FMul(pos.z, k.box_len_scale), k.box.Lz, k.box.Lzinv, image.z)
    IN  [NoRegs EXCEPT !.idx = idx,
                       !.pos = float4(wx[1], wy[1], wz[1], FMul(pos.w, k.box_len_scale)),
                       !.image = float4(wx[2], wy[2], wz[2], image.w)]

\* (mutant) the last particle is left out
ParticleGuard_OffByOne(g) == g + 1 < pdata.local_num

\* if (idx < pdata.local_num)   (lines 212, 522, 548)
ParticleGuard(g) == g < pdata.local_num

gpu_npt_boxscale_kernel(g) ==
    /\ Running("gpu_npt_boxscale_kernel", g)
    /\ CASE wpc[g] = 0 ->
            \* lines 209-242
            IF ParticleGuard(g)
            THEN \E pos \in tex1Dfetch("pos", g), image \in tex1Dfetch("image", g) :
                     /\ wloc' = [wloc EXCEPT ![g] = BoxscaleRegs(g, pos, image, kernel)]
                     /\ wpc' = [wpc EXCEPT ![g] = 1]
                     /\ hist' = [hist EXCEPT !.touched = @ \cup {g},
                                             !.visits = [i \in DOMAIN @ |->
                                                           IF i = g THEN @[i] + 1 ELSE @[i]]]
                     /\ UNCHANGED <<pdata, kernel, asyncError>>
            ELSE /\ wpc' = [wpc EXCEPT ![g] = End]
                 /\ UNCHANGED <<pdata, kernel, asyncError, wloc, hist>>
         [] wpc[g] = 1 ->
            \* line 245
            /\ Store(g, "pos", wloc[g].idx, wloc[g].pos, 2)
            /\ UNCHANGED wloc
         [] wpc[g] = 2 ->
            \* line 246
            /\ Store(g, "image", wloc[g].idx, wloc[g].image, 3)
            /\ UNCHANGED wloc
    /\ UNCHANGED <<g_gpu_error_checking, d_net_force, d_net_virial, d_partial_sum2K,
                   d_partial_sumW, npt_sdata, params, lastError, texSnap, hostpc, status,
                   call, callsLeft>>

\* (mutant) the net force is stored as the acceleration, undivided
StepTwoRegs_NoMass(idx, force, mass, vel, k) ==
    [NoRegs EXCEPT !.idx = idx,
                   !.accel = force,
                   !.vel = float4(VelUpdate(vel.x, force.x, k.exp_v_fac, k.deltaT),
                                  VelUpdate(vel.y, force.y, k.exp_v_fac, k.deltaT),
                                  VelUpdate(vel.z, force.z, k.exp_v_fac, k.deltaT),
                                  vel.w)]

\* registers of a step-two thread after its arithmetic (lines 327-340)
StepTwoRegs(idx, force, mass, vel, k) ==
    LET ax == FDiv(force.x, mass)
        ay == FDiv(force.y, mass)
        az == FDiv(force.z, mass)
    IN  [NoRegs EXCEPT !.idx = idx,
                       !.accel = float4(ax, ay, az, force.w),
                       !.vel = float4(VelUpdate(vel.x, ax, k.exp_v_fac, k.deltaT),
                                      VelUpdate(vel.y, ay, k.exp_v_fac, k.deltaT),
                                      VelUpdate(vel.z, az, k.exp_v_fac, k.deltaT),
                                      vel.w)]

gpu_npt_step_two_kernel(g) ==
    /\ Running("gpu_npt_step_two_kernel", g)
    /\ CASE wpc[g] = 0 ->
            \* lines 320-340; net force and mass are not written by any kernel
            IF GroupGuard(g)
            THEN LET idx == MemberOf(g)
                     inside == idx \in DOMAIN d_net_force
                     force == IF inside THEN d_net_force[idx] ELSE float4(0, 0, 0, 0)
                     mass == IF inside THEN pdata.mass[idx] ELSE 0
                 IN
                 \E vel \in tex1Dfetch("vel", idx) :
                     /\ wloc' = [wloc EXCEPT ![g] =
                                    IF inside THEN StepTwoRegs(idx, force, mass, vel, kernel)
                                    ELSE [NoRegs EXCEPT !.idx = idx]]
                     /\ wpc' = [wpc EXCEPT ![g] = 1]
                     /\ hist' = [hist EXCEPT !.glReads = @ \cup {g},
                                             !.touched = @ \cup {g},
                                             !.visits = [i \in DOMAIN @ |->
                                                           IF i = idx THEN @[i] + 1 ELSE @[i]]]
                     /\ UNCHANGED <<pdata, kernel, asyncError>>
            ELSE /\ wpc' = [wpc EXCEPT ![g] = End]
                 /\ UNCHANGED <<pdata, kernel, asyncError, wloc, hist>>
         [] wpc[g] = 1 ->
            \* line 343
            /\ Store(g, "vel", wloc[g].idx, wloc[g].vel, 2)
            /\ UNCHANGED wloc
         [] wpc[g] = 2 ->
            \* line 345
            /\ Store(g, "accel", wloc[g].idx, wloc[g].accel, 3)
            /\ UNCHANGED wloc
    /\ UNCHANGED <<g_gpu_error_checking, d_net_force, d_net_virial, d_partial_sum2K,
                   d_partial_sumW, npt_sdata, params, lastError, texSnap, hostpc, status,
                   call, callsLeft>>

gpu_npt_group_temperature ==
    \E members \in GroupLists(pdata.N), failAt \in 0 .. 2, err \in BindErrors :
        Driver("gpu_npt_group_temperature", <<"pdata_vel_tex", "pdata_mass_tex">>,
               [NoKernel EXCEPT !.name = "gpu_npt_group_temperature_kernel",
                                !.gridDim = params.num_blocks,
                                !.blockDim = params.block_size,
                                !.members = members,
                                !.group_size = Len(members)],
               failAt, err)

gpu_npt_pressure2 ==
    Driver("gpu_npt_pressure2", <<>>,
           [NoKernel EXCEPT !.name = "gpu_npt_pressure_kernel2",
                            !.gridDim = params.num_blocks,
                            !.blockDim = params.block_size],
           0, cudaSuccess)

\* lines 430 and 552: mass * |velocity|^2
Psq2(mass, vel) == FMul(mass, FMul(vel.x, vel.x) + FMul(vel.y, vel.y) + FMul(vel.z, vel.z))

blockIdx(g) == g \div kernel.blockDim
threadIdx(g) == g % kernel.blockDim

\* The __syncthreads() of the reduction kernels cut the statements of a thread into
\* phases: statement s of gpu_npt_group_temperature_kernel is in phase s (a barrier
\* follows the store at line 437 and every loop iteration, lines 438 and 447).
TemperaturePhase(s) == s

\* (mutant) gpu_npt_pressure_kernel2 without the __syncthreads() of line 528: the store
\* of the virial and the first loop iteration are in one phase
PressurePhase_NoStoreBarrier(s) ==
    IF s <= 1 THEN 1 ELSE IF s <= Halvings(kernel.blockDim) + 1 THEN s ELSE s - 1

\* gpu_npt_pressure_kernel2, with K = Halvings(blockDim): statements 0 .. K+1 are the
\* virial pass; no barrier stands between the store of W (line 543, statement K+1) and
\* the store of psq2 into npt_sdata (line 555, statement K+2), so both are in phase K+1.
PressurePhase(s) == IF s <= Halvings(kernel.blockDim) + 1 THEN s ELSE s - 1

Phase(s) == IF kernel.name = "gpu_npt_pressure_kernel2" THEN PressurePhase(s)
            ELSE TemperaturePhase(s)

\* __syncthreads(): thread g may run its statement once every thread of its block has
\* finished the statements of the earlier phases
BarrierOpen(g) ==
    \A h \in Threads :
        blockIdx(h) = blockIdx(g) => (wpc[h] = End \/ Phase(wpc[h]) >= Phase(wpc[g]))

\* record the npt_sdata slots thread g reads and writes in its statement
Access(g, reads, writes) ==
    LET b == blockIdx(g)
        cur == hist.sacc[b]
        base == IF cur.phase = Phase(wpc[g]) THEN cur
                ELSE [phase |-> Phase(wpc[g]), rd |-> {}, wr |-> {}]
    IN  [hist EXCEPT !.sacc[b] =
            [base EXCEPT !.rd = @ \cup {<<threadIdx(g), x>> : x \in reads},
                         !.wr = @ \cup {<<threadIdx(g), x>> : x \in writes}]]

\* npt_sdata[threadIdx.x] = val; __syncthreads()   (lines 437, 527, 555)
SharedStore(g, val) ==
    /\ npt_sdata' = [npt_sdata EXCEPT ![blockIdx(g)][threadIdx(g)] = val]
    /\ hist' = Access(g, {}, {threadIdx(g)})

\* if (threadIdx.x < offs) npt_sdata[threadIdx.x] += npt_sdata[threadIdx.x + offs];
\* offs >>= 1; __syncthreads()   (lines 444-447, 534-537, 562-565), iteration j
Halve(g, j) ==
    LET offs == kernel.blockDim \div (2 ^ j)
        t == threadIdx(g)
        b == blockIdx(g)
    IN  IF t < offs
        THEN /\ npt_sdata' = [npt_sdata EXCEPT ![b][t] = @ + npt_sdata[b][t + offs]]
             /\ hist' = Access(g, {t, t + offs}, {t})
        ELSE UNCHANGED <<npt_sdata, hist>>

\* if (threadIdx.x == 0) out[blockIdx.x] = npt_sdata[0]   (lines 451-454, 541-544, 569-572)
BlockResult(g, out) ==
    IF threadIdx(g) = 0
    THEN /\ out' = [out EXCEPT ![blockIdx(g)] = npt_sdata[blockIdx(g)][0]]
         /\ hist' = Access(g, {0}, {})
    ELSE UNCHANGED <<out, hist>>

\* (mutant) psq2 is left uninitialised in a thread past the group
GroupPsq2_Uninitialised(g) ==
    IF GroupGuard(g)
    THEN LET idx == MemberOf(g)
             mass == IF idx \in DOMAIN pdata.mass THEN pdata.mass[idx] ELSE 0
         IN  {Psq2(mass, vel) : vel \in tex1Dfetch("vel", idx)}
    ELSE {Garbage}

\* lines 423-435: the values psq2 can take in thread g
GroupPsq2(g) ==
    IF GroupGuard(g)
    THEN LET idx == MemberOf(g)
             mass == IF idx \in DOMAIN pdata.mass THEN pdata.mass[idx] ELSE 0
         IN  {Psq2(mass, vel) : vel \in tex1Dfetch("vel", idx)}
    ELSE {0}

\* lines 521-525: virial in thread g
Virial(g) == IF ParticleGuard(g) THEN d_net_virial[g] ELSE 0

\* lines 547-553: psq2 in thread g of the pressure kernel
AllPsq2(g) == IF ParticleGuard(g) THEN Psq2(pdata.mass[g], pdata.vel[g]) ELSE 0

gpu_npt_group_temperature_kernel(g) ==
    LET K == Halvings(kernel.blockDim) IN
    /\ Running("gpu_npt_group_temperature_kernel", g)
    /\ BarrierOpen(g)
    /\ wpc' = [wpc EXCEPT ![g] = @ + 1]
    /\ CASE wpc[g] = 0 ->
            \* lines 421-438
            /\ \E psq2 \in GroupPsq2(g) : SharedStore(g, psq2)
            /\ UNCHANGED d_partial_sum2K
         [] wpc[g] \in 1 .. K ->
            /\ Halve(g, wpc[g])
            /\ UNCHANGED d_partial_sum2K
         [] wpc[g] = K + 1 ->
            /\ BlockResult(g, d_partial_sum2K)
            /\ UNCHANGED npt_sdata
    /\ UNCHANGED <<g_gpu_error_checking, pdata, d_net_force, d_net_virial, d_partial_sumW,
                   params, lastError, asyncError, kernel, wloc, texSnap, hostpc, status,
                   call, callsLeft>>

gpu_npt_pressure_kernel2(g) ==
    LET K == Halvings(kernel.blockDim) IN
    /\ Running("gpu_npt_pressure_kernel2", g)
    /\ BarrierOpen(g)
    /\ wpc' = [wpc EXCEPT ![g] = @ + 1]
    /\ CASE wpc[g] = 0 ->
            \* lines 518-528
            /\ SharedStore(g, Virial(g))
            /\ UNCHANGED <<d_partial_sum2K, d_partial_sumW>>
         [] wpc[g] \in 1 .. K ->
            /\ Halve(g, wpc[g])
            /\ UNCHANGED <<d_partial_sum2K, d_partial_sumW>>
         [] wpc[g] = K + 1 ->
            /\ BlockResult(g, d_partial_sumW)
            /\ UNCHANGED <<npt_sdata, d_partial_sum2K>>
         [] wpc[g] = K + 2 ->
            \* lines 547-556
            /\ SharedStore(g, AllPsq2(g))
            /\ UNCHANGED <<d_partial_sum2K, d_partial_sumW>>
         [] wpc[g] \in (K + 3) .. (2 * K + 2) ->
            /\ Halve(g, wpc[g] - (K + 2))
            /\ UNCHANGED <<d_partial_sum2K, d_partial_sumW>>
         [] wpc[g] = 2 * K + 3 ->
            /\ BlockResult(g, d_partial_sum2K)
            /\ UNCHANGED <<npt_sdata, d_partial_sumW>>
    /\ UNCHANGED <<g_gpu_error_checking, pdata, d_net_force, d_net_virial,
                   params, lastError, asyncError, kernel, wloc, texSnap, hostpc, status,
                   call, callsLeft>>

Next ==
    \/ gpu_npt_step_one
    \/ gpu_npt_boxscale
    \/ gpu_npt_step_two
    \/ gpu_npt_group_temperature
    \/ gpu_npt_pressure2
    \/ cudaThreadSynchronize
    \/ \E g \in Threads : gpu_npt_step_one_kernel(g)
    \/ \E g \in Threads : gpu_npt_boxscale_kernel(g)
    \/ \E g \in Threads : gpu_npt_step_two_kernel(g)
    \/ \E g \in Threads : gpu_npt_group_temperature_kernel(g)
    \/ \E g \in Threads : gpu_npt_pressure_kernel2(g)

Spec == Init /\ [][Next]_vars

\* SpecLaunch: one driver call, on more grids (several blocks, blocks of up to four
\* threads, a block size that is no power of two, a grid smaller than the group) and
\* with both couplings
LaunchGrids == {<<1, 1>>, <<1, 3>>, <<2, 2>>, <<4, 1>>, <<3, 1>>}

InitLaunch == InitWith(ParamSets(LaunchGrids, Couplings), 1)

SpecLaunch == InitLaunch /\ [][Next]_vars

(* ================================ claims =============================== *)
\* the kernel `name` was launched and every thread of its grid has finished
Completed(name) ==
    /\ kernel.name = name
    /\ ~kernel.aborted
    /\ \A g \in Threads : wpc[g] = End

NoDup(m) == \A i, j \in 1 .. Len(m) : m[i] = m[j] => i = j
InRange(m) == \A j \in 1 .. Len(m) : m[j] \in Particles(pdata.N)

Axes == {"x", "y", "z"}
BoxLen(box, c) == CASE c = "x" -> box.Lx [] c = "y" -> box.Ly [] c = "z" -> box.Lz

\* a cudaBindTexture of the call failed
BindFailed(c) == \E i \in 1 .. Len(c.binds) : c.binds[i][2] # cudaSuccess

(* ---- C1 ---- *)
\* C1 as stated: in unchecked mode a driver whose binds succeeded returns cudaSuccess,
\* unless the launch reported a configuration failure, which it then returns verbatim.
C1_LaunchFailureReturned ==
    (~g_gpu_error_checking /\ hostpc = "idle" /\ call.fn # "none"
        /\ call.bindError = cudaSuccess)
    => status = call.launchError

\* C1 amended: in unchecked mode a driver whose binds succeeded returns cudaSuccess,
\* also when the launch itself reported a configuration failure; that failure is
\* returned verbatim in checked mode only.
C1_UncheckedReturnsSuccess ==
    /\ (~g_gpu_error_checking /\ call.fn # "none" /\ call.bindError = cudaSuccess)
           => status = cudaSuccess
    /\ (g_gpu_error_checking /\ hostpc = "idle" /\ call.launchError # cudaSuccess)
           => status = call.launchError

\* an unchecked gpu_npt_boxscale whose launch was rejected has returned cudaSuccess
C1_Witness ==
    /\ ~g_gpu_error_checking
    /\ call.fn = "gpu_npt_boxscale"
    /\ call.launchError = cudaErrorInvalidConfiguration
    /\ status = cudaSuccess
    /\ hostpc = "idle"

(* ---- C2 ---- *)
\* C2: a driver call in which a cudaBindTexture fails returns that bind's error code,
\* calls no cudaBindTexture after it, launches no kernel, and leaves the particle arrays
\* and the partial sums as they were.
C2_BindFailureShortCircuits ==
    [][(callsLeft' # callsLeft /\ BindFailed(call'))
        => LET log == call'.binds IN
           /\ log[Len(log)][2] # cudaSuccess
           /\ \A i \in 1 .. (Len(log) - 1) : log[i][2] = cudaSuccess
           /\ status' = log[Len(log)][2]
           /\ hostpc' = "idle"
           /\ ~call'.launched
           /\ kernel' = kernel /\ wpc' = wpc
           /\ pdata' = pdata
           /\ d_partial_sum2K' = d_partial_sum2K
           /\ d_partial_sumW' = d_partial_sumW]_vars

\* gpu_npt_step_two, called after an earlier launch changed the arrays, has failed in
\* its second bind (pdata_mass_tex) and returned the error
C2_Witness ==
    /\ call.fn = "gpu_npt_step_two"
    /\ Len(call.binds) = 2
    /\ call.binds[2][2] \in BindErrors
    /\ status = call.binds[2][2]
    /\ kernel.name # "none"
    /\ pdata # InitPdata(pdata.N)

(* ---- C3 ---- *)
\* coordinate c of particle i after the scaling at lines 217-219, before the wrap
Scaled(i, c) == FMul(texSnap.pos[i][c], kernel.box_len_scale)

\* particle i sits exactly at the upper boundary of the scaled box on axis c
AtBoundary(i, c) == 2 * Scaled(i, c) = BoxLen(kernel.box, c)

\* C3 as stated: a particle whose scaled coordinate is exactly newL/2 ends at
\* x - newL with its image counter incremented by 1.
C3_BoundaryWrapped ==
    Completed("gpu_npt_boxscale_kernel") =>
        \A i \in Particles(pdata.local_num), c \in Axes :
            AtBoundary(i, c) =>
                /\ pdata.pos[i][c] = Scaled(i, c) - BoxLen(kernel.box, c)
                /\ pdata.image[i][c] = texSnap.image[i][c] + 1

\* C3 amended: a particle whose scaled coordinate is exactly newL/2 keeps that
\* coordinate and its image counter (rintf rounds the quotient 0.5 to the even 0).
C3_BoundaryKept ==
    Completed("gpu_npt_boxscale_kernel") =>
        \A i \in Particles(pdata.local_num), c \in Axes :
            AtBoundary(i, c) =>
                /\ pdata.pos[i][c] = Scaled(i, c)
                /\ pdata.image[i][c] = texSnap.image[i][c]

\* gpu_npt_boxscale has finished on a box that grew, with particle 0 at x = newLx/2
C3_Witness ==
    /\ Completed("gpu_npt_boxscale_kernel")
    /\ kernel.box_len_scale > One
    /\ 0 \in Particles(pdata.local_num)
    /\ AtBoundary(0, "x")

(* ---- C4 ---- *)
\* C4: the grid of gpu_npt_boxscale has at least local_num threads, for every particle
\* count and block size; every particle index is taken by exactly one thread, there
\* being no group list in this kernel; a thread with idx >= local_num touches nothing.
C4_BoxscaleCoversAll ==
    kernel.name = "gpu_npt_boxscale_kernel" =>
        /\ kernel.gridDim * kernel.blockDim >= pdata.local_num
        /\ hist.touched \subseteq Particles(pdata.local_num)
        /\ \A i \in Particles(pdata.local_num) : hist.visits[i] <= 1
        /\ Completed("gpu_npt_boxscale_kernel") =>
               \A i \in Particles(pdata.local_num) :
                   LET r == BoxscaleRegs(i, texSnap.pos[i], texSnap.image[i], kernel) IN
                   hist.visits[i] = 1 /\ pdata.pos[i] = r.pos /\ pdata.image[i] = r.image

\* gpu_npt_boxscale has finished on two particles with a block of three threads
C4_Witness ==
    /\ Completed("gpu_npt_boxscale_kernel")
    /\ pdata.local_num = 2
    /\ kernel.blockDim = 3
    /\ \A i \in Particles(2) : hist.visits[i] = 1
    /\ wpc[2] = End /\ 2 \notin hist.touched

(* ---- C5 ---- *)
RECURSIVE SumSeq(_)
SumSeq(s) == IF s = <<>> THEN 0 ELSE s[1] + SumSeq(Tail(s))

IsPowerOfTwo(n) == \E k \in 0 .. n : 2 ^ k = n

\* mass * |velocity|^2 of particle i, zero for an index that is no particle
ParticlePsq2(i) ==
    IF i \in Particles(pdata.N) THEN Psq2(texSnap.mass[i], texSnap.vel[i]) ELSE 0

\* what worker g contributes to the 2K sum of the group, to the 2K sum of all particles
\* and to the W sum: workers past the count contribute zero
GroupContribution(g) ==
    IF g < kernel.group_size THEN ParticlePsq2(kernel.members[g + 1]) ELSE 0
Contribution2K(g) == IF g < pdata.local_num THEN ParticlePsq2(g) ELSE 0
ContributionW(g) == IF g < pdata.local_num THEN d_net_virial[g] ELSE 0

\* the contributions of the workers of block b, and the slots of the launched blocks
GroupOfBlock(b) ==
    [t \in 1 .. kernel.blockDim |-> GroupContribution(b * kernel.blockDim + t - 1)]
Block2K(b) == [t \in 1 .. kernel.blockDim |-> Contribution2K(b * kernel.blockDim + t - 1)]
BlockW(b) == [t \in 1 .. kernel.blockDim |-> ContributionW(b * kernel.blockDim + t - 1)]
Slots(out) == [b \in 1 .. kernel.gridDim |-> out[b - 1]]

\* C5: after a reduction launch with a power-of-two block size and at least as many
\* threads as entries, slot b of the partial sums is the sum of the contributions of the
\* threads of block b, and the slots add up to the total over the group (2K of
\* gpu_npt_group_temperature) or over all particles (W and 2K of gpu_npt_pressure2):
\* a total in which the block size does not occur.
C5_PartialSums ==
    /\ (/\ Completed("gpu_npt_group_temperature_kernel")
        /\ IsPowerOfTwo(kernel.blockDim)
        /\ kernel.gridDim * kernel.blockDim >= kernel.group_size)
       => /\ \A b \in 0 .. (kernel.gridDim - 1) :
                 d_partial_sum2K[b] = SumSeq(GroupOfBlock(b))
          /\ SumSeq(Slots(d_partial_sum2K))
                = SumSeq([j \in 1 .. kernel.group_size |-> ParticlePsq2(kernel.members[j])])
    /\ (/\ Completed("gpu_npt_pressure_kernel2")
        /\ IsPowerOfTwo(kernel.blockDim)
        /\ kernel.gridDim * kernel.blockDim >= pdata.local_num)
       => /\ \A b \in 0 .. (kernel.gridDim - 1) :
                 /\ d_partial_sumW[b] = SumSeq(BlockW(b))
                 /\ d_partial_sum2K[b] = SumSeq(Block2K(b))
          /\ SumSeq(Slots(d_partial_sumW))
                = SumSeq([j \in 1 .. pdata.local_num |-> d_net_virial[j - 1]])
          /\ SumSeq(Slots(d_partial_sum2K))
                = SumSeq([j \in 1 .. pdata.local_num |-> ParticlePsq2(j - 1)])

\* gpu_npt_pressure2 has finished on two particles with one block of four threads, and
\* the W slot holds the sum of the two virials
C5_Witness ==
    /\ Completed("gpu_npt_pressure_kernel2")
    /\ kernel.blockDim = 4 /\ kernel.gridDim = 1
    /\ pdata.local_num = 2
    /\ d_partial_sumW[0] = d_net_virial[0] + d_net_virial[1]
    /\ d_partial_sum2K[0] = ParticlePsq2(0) + ParticlePsq2(1)

(* ---- C6 ---- *)
\* no thread of a block has read or written, in the barrier phase the block is in, an
\* npt_sdata slot that another thread of the block has written in that phase
NoRace ==
    \A b \in DOMAIN hist.sacc :
        \A w \in hist.sacc[b].wr, a \in hist.sacc[b].rd \cup hist.sacc[b].wr :
            w[2] = a[2] => w[1] = a[1]

\* C6: in the reduction kernels no thread reads an npt_sdata slot that another thread
\* writes in the same barrier phase, whatever the interleaving; and in
\* gpu_npt_pressure_kernel2, once thread 0 of a block has stored the W slot, the slot
\* holds the block's virial sum, also while the 2K pass overwrites npt_sdata.
C6_ReductionRaceFree ==
    /\ kernel.name \in {"gpu_npt_group_temperature_kernel", "gpu_npt_pressure_kernel2"}
           => NoRace
    /\ (kernel.name = "gpu_npt_pressure_kernel2" /\ IsPowerOfTwo(kernel.blockDim))
           => \A b \in 0 .. (kernel.gridDim - 1) :
                 wpc[b * kernel.blockDim] > Halvings(kernel.blockDim) + 1
                     => d_partial_sumW[b] = SumSeq(BlockW(b))

\* a block of two threads of gpu_npt_pressure_kernel2 is in its 2K pass: thread 1 has
\* overwritten its npt_sdata slot with psq2, and thread 0 has stored the virial sum
C6_Witness ==
    /\ kernel.name = "gpu_npt_pressure_kernel2"
    /\ kernel.blockDim = 2
    /\ pdata.local_num = 2
    /\ wpc[1] = Halvings(2) + 3
    /\ wpc[0] = Halvings(2) + 2
    /\ npt_sdata[0][1] = ParticlePsq2(1)
    /\ d_partial_sumW[0] = d_net_virial[0] + d_net_virial[1]

(* ---- C7 ---- *)
Range(m) == {m[j] : j \in 1 .. Len(m)}

StepKernels == {"gpu_npt_step_one_kernel", "gpu_npt_step_two_kernel"}

\* the entries of the list of kernel k that a thread of its grid takes
Taken(k) ==
    LET threads == k.gridDim * k.blockDim
    IN  SubSeq(k.members, 1, IF k.group_size < threads THEN k.group_size ELSE threads)

\* the particle arrays after step one (step two, the box rescale) has been applied to
\* the particles of list m (all particles), each from its values in snap
AfterStepOne(snap, k, m) ==
    [snap EXCEPT
       !.pos = [i \in DOMAIN @ |-> IF i \in Range(m)
                  THEN StepOneRegs(i, snap.pos[i], snap.vel[i], snap.accel[i], k).pos
                  ELSE @[i]],
       !.vel = [i \in DOMAIN @ |-> IF i \in Range(m)
                  THEN StepOneRegs(i, snap.pos[i], snap.vel[i], snap.accel[i], k).vel
                  ELSE @[i]]]

AfterStepTwo(snap, k, m) ==
    [snap EXCEPT
       !.vel = [i \in DOMAIN @ |-> IF i \in Range(m)
                  THEN StepTwoRegs(i, d_net_force[i], snap.mass[i], snap.vel[i], k).vel
                  ELSE @[i]],
       !.accel = [i \in DOMAIN @ |-> IF i \in Range(m)
                  THEN StepTwoRegs(i, d_net_force[i], snap.mass[i], snap.vel[i], k).accel
                  ELSE @[i]]]

AfterBoxscale(snap, k) ==
    [snap EXCEPT
       !.pos = [i \in DOMAIN @ |-> BoxscaleRegs(i, snap.pos[i], snap.image[i], k).pos],
       !.image = [i \in DOMAIN @ |-> BoxscaleRegs(i, snap.pos[i], snap.image[i], k).image]]

\* the list of the launch holds valid indices, none of them twice
ProperList(m) == NoDup(m) /\ InRange(m)

\* C7: with a group list without a repeated index no particle index is taken by two
\* threads of a step-one, step-two or box-rescale launch, and when the launch is over
\* the particle arrays are a function of the arrays at launch, whatever the interleaving;
\* and two gpu_npt_step_one launches on disjoint lists, one after the other, leave the
\* arrays that one launch on the concatenation of the lists leaves.
C7_NoSharedIndex ==
    /\ (kernel.name \in StepKernels /\ ProperList(kernel.members))
           => \A i \in Particles(pdata.N) : hist.visits[i] <= 1
    /\ kernel.name = "gpu_npt_boxscale_kernel"
           => \A i \in Particles(pdata.N) : hist.visits[i] <= 1
    /\ (Completed("gpu_npt_step_one_kernel") /\ ProperList(kernel.members))
           => pdata = AfterStepOne(texSnap, kernel, Taken(kernel))
    /\ (Completed("gpu_npt_step_two_kernel") /\ ProperList(kernel.members))
           => pdata = AfterStepTwo(texSnap, kernel, Taken(kernel))
    /\ Completed("gpu_npt_boxscale_kernel")
           => pdata = AfterBoxscale(texSnap, kernel)
    /\ (/\ Completed("gpu_npt_step_one_kernel")
        /\ hist.prev.name = "gpu_npt_step_one_kernel"
        /\ ~hist.prev.aborted
        /\ ProperList(Taken(hist.prev) \o Taken(kernel)))
       => pdata = AfterStepOne(hist.prevSnap, kernel, Taken(hist.prev) \o Taken(kernel))

\* gpu_npt_step_one has run on the list <<0>> and then on the list <<1>>, and the arrays
\* are those of a launch on <<0, 1>>
C7_Witness ==
    /\ pdata.N = 2
    /\ Completed("gpu_npt_step_one_kernel")
    /\ hist.prev.name = "gpu_npt_step_one_kernel"
    /\ ~hist.prev.aborted
    /\ hist.prev.members = <<0>>
    /\ kernel.members = <<1>>
    /\ pdata = AfterStepOne(hist.prevSnap, kernel, <<0, 1>>)
    /\ pdata.pos[0] # hist.prevSnap.pos[0]
    /\ pdata.pos[1] # hist.prevSnap.pos[1]

(* ---- C8 ---- *)
\* C8: gpu_npt_step_one_kernel, on a list of valid indices, changes nothing but
\* pos.x, pos.y, pos.z, vel.x, vel.y, vel.z of the particles of the list: pos.w, vel.w,
\* accel, mass and image of every particle and all fields of the other particles are
\* what they were at launch; a thread with group_idx >= group_size accesses no particle
\* data and does not read d_group_members.
C8_StepOneFrame ==
    kernel.name = "gpu_npt_step_one_kernel" =>
        /\ InRange(kernel.members) =>
              /\ \A i \in Particles(pdata.N) :
                    /\ pdata.pos[i].w = texSnap.pos[i].w
                    /\ pdata.vel[i].w = texSnap.vel[i].w
                    /\ i \notin Range(kernel.members) =>
                          pdata.pos[i] = texSnap.pos[i] /\ pdata.vel[i] = texSnap.vel[i]
              /\ pdata.accel = texSnap.accel
              /\ pdata.mass = texSnap.mass
              /\ pdata.image = texSnap.image
              /\ pdata.N = texSnap.N /\ pdata.local_num = texSnap.local_num
        /\ \A g \in Threads :
              g >= kernel.group_size => g \notin hist.touched \cup hist.glReads

\* gpu_npt_step_one has finished on the list <<0>> of two particles with two threads:
\* particle 0 has moved and kept its pos.w, thread 1 was idle
C8_Witness ==
    /\ Completed("gpu_npt_step_one_kernel")
    /\ kernel.members = <<0>>
    /\ pdata.N = 2
    /\ 1 \in Threads
    /\ pdata.pos[0] # texSnap.pos[0]
    /\ pdata.vel[0] # texSnap.vel[0]
    /\ pdata.pos[0].w = texSnap.pos[0].w /\ pdata.pos[0].w # 0
    /\ 1 \notin hist.touched

(* ---- C9 ---- *)
\* C9: gpu_npt_step_two_kernel never changes pdata.pos or pdata.image; when it is over
\* every member a thread took holds accel = net force / mass in x, y, z and the velocity
\* updated with that acceleration; and the acceleration a later gpu_npt_step_one_kernel
\* thread fetches for a particle is the one gpu_npt_step_two_kernel last stored for it.
C9_StepTwoStoresAccel ==
    /\ kernel.name = "gpu_npt_step_two_kernel"
           => pdata.pos = texSnap.pos /\ pdata.image = texSnap.image
    /\ (Completed("gpu_npt_step_two_kernel") /\ ProperList(kernel.members))
           => \A i \in Range(Taken(kernel)) :
                 /\ \A c \in Axes :
                       /\ pdata.accel[i][c] = FDiv(d_net_force[i][c], pdata.mass[i])
                       /\ pdata.vel[i][c] = VelUpdate(texSnap.vel[i][c], pdata.accel[i][c],
                                                      kernel.exp_v_fac, kernel.deltaT)
                 /\ hist.accelStored[i] = {pdata.accel[i]}
    /\ kernel.name = "gpu_npt_step_one_kernel"
           => \A g \in Threads :
                 (/\ wpc[g] \in 1 .. 3
                  /\ g < kernel.group_size
                  /\ wloc[g].idx \in Particles(pdata.N)
                  /\ hist.accelStored[wloc[g].idx] # {})
                 => wloc[g].accel \in hist.accelStored[wloc[g].idx]

\* gpu_npt_step_two stored the acceleration of particle 1 (mass 2.0), and thread 0 of the
\* gpu_npt_step_one launched after it has fetched that acceleration
C9_Witness ==
    /\ pdata.N = 2
    /\ kernel.name = "gpu_npt_step_one_kernel"
    /\ hist.prev.name = "gpu_npt_step_two_kernel"
    /\ kernel.members = <<1>>
    /\ wpc[0] = 1
    /\ hist.accelStored[1] = {wloc[0].accel}
    /\ wloc[0].accel.x = FDiv(d_net_force[1].x, pdata.mass[1])
    /\ wloc[0].accel # InitAccel(1)
    /\ pdata.mass[1] # One

Returned == call.launched /\ hostpc = "idle"

\* C11: in checked mode a driver that launched a kernel returns only when the kernel is
\* over (every thread finished, or the device faulted), and a fault of the kernel is the
\* status it returns; in unchecked mode the driver that launched a kernel returns
\* cudaSuccess and a fault of that kernel never becomes the status of that call.
C11_CheckedWaitsForKernel ==
    /\ (g_gpu_error_checking /\ call.launched)
           => IF hostpc = "sync"
              THEN status = "pending"
              ELSE /\ KernelDone
                   /\ status = IF kernel.aborted THEN cudaErrorLaunchFailure
                               ELSE cudaSuccess
                   /\ status = asyncError
    /\ (~g_gpu_error_checking /\ call.launched)
           => /\ hostpc = "idle"
              /\ status = cudaSuccess

\* checked mode: gpu_npt_step_one launched a kernel that stored outside the arrays, the
\* device faulted, and the driver has returned the fault
C11_Witness ==
    /\ g_gpu_error_checking
    /\ Returned
    /\ call.fn = "gpu_npt_step_one"
    /\ kernel.aborted
    /\ asyncError = cudaErrorLaunchFailure
    /\ status = cudaErrorLaunchFailure

(* ---- C12 ---- *)
\* the post-scale box length on axis c: L' = lenScale * L (lines 272-274)
PostScaleLen(c) == FMul(BoxLen(params.box, c), kernel.box_len_scale)

Abs(x) == IF x < 0 THEN 0 - x ELSE x

\* the unwrapped coordinate of particle i on axis c is what it was after the scaling:
\* p' + image' * L' = lenScale * p + image * L'
UnwrappedKept(i, c) ==
    pdata.pos[i][c] + pdata.image[i][c] * PostScaleLen(c)
        = Scaled(i, c) + texSnap.image[i][c] * PostScaleLen(c)

\* C12 as stated: after gpu_npt_boxscale every position component lies in the periodic
\* cell of the post-scale box, |p'| <= L'/2, and the unwrapped coordinate is kept,
\* p' + image' * L' = lenScale * p + image * L'.
C12_InsideScaledBox ==
    Completed("gpu_npt_boxscale_kernel") =>
        \A i \in Particles(pdata.local_num), c \in Axes :
            /\ 2 * Abs(pdata.pos[i][c]) <= PostScaleLen(c)
            /\ UnwrappedKept(i, c)

(* ---- C13 ---- *)
\* C13 as stated: gpu_npt_boxscale_kernel changes only pos.x, pos.y, pos.z and
\* image.x, image.y, image.z of a particle: pos.w (the type slot), the velocity, the
\* acceleration and the mass of every particle are what they were at launch.
C13_BoxscaleFrame ==
    kernel.name = "gpu_npt_boxscale_kernel" =>
        /\ \A i \in Particles(pdata.N) : pdata.pos[i].w = texSnap.pos[i].w
        /\ pdata.vel = texSnap.vel
        /\ pdata.accel = texSnap.accel
        /\ pdata.mass = texSnap.mass

====
